---- MODULE Spec2Model ----
(***************************************************************************)
(* State-machine model of the custom links of chainer/links/connection:    *)
(* the stateful LSTM, the LSTM_Emphasis_Decoder, EmbedID save/load, and    *)
(* the optimizer setup exercised by test_optimizers_by_linear_model.py.    *)
(*                                                                         *)
(* Tensor entries are abstracted to the finite ring Z_Modulus; shapes,     *)
(* None-ness, attribute presence, files and exceptions are modelled        *)
(* exactly.                                                                *)
(***************************************************************************)
EXTENDS Integers, Sequences, FiniteSets, TLC

VARIABLES build, cell, files, saved, last, emb, opt

vars == <<build, cell, files, saved, last, emb, opt>>

(***************************************************************************)
(* Bounds                                                                  *)
(***************************************************************************)
\* tensor entries live in 0..Modulus-1
Modulus == 3
\* batch sizes of the inputs fed to the cells
MaxBatch == 2
\* seeds of the (random / trained) weight and input fillings
MaxSeed == 1
\* number of optimizer.update() calls modelled after a setup
MaxEpoch == 2
\* vocabulary sizes and embedding widths of the EmbedID layers
MaxVocab == 2
MaxWidth == 2

Val == 0 .. (Modulus - 1)
Seeds == 0 .. MaxSeed
BatchSizes == 1 .. MaxBatch

\* Python's None, for a tensor-valued and for a link-valued expression
NoneT == <<>>
NoneL == [W |-> <<>>, b |-> <<>>]
NoErr == "none"

(***************************************************************************)
(* Python / numpy numbers.  A number is kept in quarters (q = 4 * value)   *)
(* together with its Python type, so that both meanings of `/` on ints     *)
(* (floor division on Python 2, true division on Python 3) are exact.      *)
(***************************************************************************)
IntNum(n) == [q |-> 4 * n, isfloat |-> FALSE]

\* n / 4 for an int n
PyDiv4(n) ==
    IF build.trueDiv THEN [q |-> n, isfloat |-> TRUE]
    ELSE IntNum(n \div 4)

\* Python == on numbers compares by value, whatever the types
NumEq(a, b) == a.q = b.q

(***************************************************************************)
(* Tensors: a matrix is a sequence of rows.                                *)
(***************************************************************************)
Rows(m) == Len(m)
Cols(m) == Len(m[1])

\* xp.zeros((n, k))
Zeros(n, k) == [r \in 1 .. n |-> [c \in 1 .. k |-> 0]]

\* an input batch (n rows of width w)
XOf(n, w, seed) == [r \in 1 .. n |-> [c \in 1 .. w |-> (seed + r * c) % Modulus]]

RECURSIVE DotTo(_, _, _)
DotTo(a, b, n) == IF n = 0 THEN 0 ELSE (DotTo(a, b, n - 1) + a[n] * b[n]) % Modulus

(***************************************************************************)
(* linear.Linear: W has shape (out, in), b is a vector or None (nobias).   *)
(***************************************************************************)
Linear(in_size, out_size, nobias, seed) ==
    [W |-> [o \in 1 .. out_size |-> [i \in 1 .. in_size |-> (seed + o + i) % Modulus]],
     b |-> IF nobias THEN NoneT ELSE [o \in 1 .. out_size |-> (seed * o) % Modulus]]

\* Linear.__call__: y = x W^T + b; a None input or a width mismatch raises
Linear_call(l, x) ==
    IF x = NoneT THEN [raised |-> "TypeError", y |-> NoneT]
    ELSE IF Cols(x) # Cols(l.W) THEN [raised |-> "InvalidType", y |-> NoneT]
    ELSE [raised |-> NoErr,
          y |-> [r \in 1 .. Rows(x) |-> [o \in 1 .. Rows(l.W) |->
                   (DotTo(x[r], l.W[o], Cols(x))
                      + (IF l.b = NoneT THEN 0 ELSE l.b[o])) % Modulus]]]

\* Variable + Variable: shapes must agree
Add(a, b) ==
    IF Rows(a) # Rows(b) \/ Cols(a) # Cols(b)
    THEN [raised |-> "InvalidType", y |-> NoneT]
    ELSE [raised |-> NoErr,
          y |-> [r \in 1 .. Rows(a) |-> [k \in 1 .. Cols(a) |->
                   (a[r][k] + b[r][k]) % Modulus]]]

(***************************************************************************)
(* functions.activation.lstm: the fused gating step.  The four gates of    *)
(* unit u are the entries 4(u-1)+1 .. 4(u-1)+4 of the pre-activation row.  *)
(* sigmoid and tanh are abstracted to fixed maps on Z_Modulus.             *)
(***************************************************************************)
Sigmoid(v) == (v + 1) % Modulus
Tanh(v) == (2 * v) % Modulus

lstm_lstm(c, x) ==
    IF Rows(c) # Rows(x) \/ 4 * Cols(c) # Cols(x)
    THEN [raised |-> "InvalidType", c |-> NoneT, h |-> NoneT]
    ELSE LET a(r, u) == x[r][4 * (u - 1) + 1]
             i(r, u) == x[r][4 * (u - 1) + 2]
             f(r, u) == x[r][4 * (u - 1) + 3]
             o(r, u) == x[r][4 * (u - 1) + 4]
             cn == [r \in 1 .. Rows(c) |-> [u \in 1 .. Cols(c) |->
                      (Tanh(a(r, u)) * Sigmoid(i(r, u))
                         + Sigmoid(f(r, u)) * c[r][u]) % Modulus]]
             hn == [r \in 1 .. Rows(c) |-> [u \in 1 .. Cols(c) |->
                      (Sigmoid(o(r, u)) * Tanh(cn[r][u])) % Modulus]]
         IN [raised |-> NoErr, c |-> cn, h |-> hn]

\* xp.zeros((len(x.data), state_size)): a float dimension is rejected by
\* numpy, or truncated by releases that only warn about it
zeros_state(x, state_size) ==
    IF state_size.isfloat /\ ~build.floatShape
    THEN [raised |-> "TypeError", y |-> NoneT]
    ELSE [raised |-> NoErr, y |-> Zeros(Rows(x), state_size.q \div 4)]

(***************************************************************************)
(* Layer objects.  One record shape serves both classes; attrs is the set  *)
(* of attributes the object has (a field outside attrs holds a filler).    *)
(***************************************************************************)
Blank(cls) ==
    [cls |-> cls, attrs |-> {}, use_attention |-> FALSE, upward |-> NoneL,
     lateral |-> NoneL, attention |-> NoneL, state_size |-> IntNum(0),
     c |-> NoneT, h |-> NoneT]

NoObj == Blank("none")

\* a reset that forgets to clear the cell state
reset_state_h_only(self) ==
    [self EXCEPT !.h = NoneT, !.attrs = @ \cup {"c", "h"}]

\* reset_state: self.c = self.h = None
reset_state(self) ==
    [self EXCEPT !.c = NoneT, !.h = NoneT, !.attrs = @ \cup {"c", "h"}]

\* truth value of an optional link argument (a Link object is always true)
Truthy(v) == v # NoneL

\* link.Chain.__init__(upward=..., lateral=...) followed by
\* self.state_size = out_size; self.reset_state()
Register(self, upward, lateral, out_size) ==
    reset_state([self EXCEPT !.upward = upward, !.lateral = lateral,
                             !.state_size = out_size,
                             !.attrs = @ \cup {"upward", "lateral", "state_size"}])

\* LSTM.__init__ (in_size an int, out_size a number; 4 * out_size = out_size.q)
LSTM_init(in_size, out_size, init_upward, init_lateral, seed) ==
    LET self == Blank("LSTM") IN
    IF Truthy(init_upward) /\ Truthy(init_lateral)
    THEN IF in_size # Cols(init_upward.W)
         THEN [raised |-> "AssertionError", self |-> self]
         ELSE IF ~NumEq(out_size, PyDiv4(Rows(init_upward.W)))
         THEN [raised |-> "AssertionError", self |-> self]
         ELSE [raised |-> NoErr,
               self |-> Register(self, init_upward, init_lateral, out_size)]
    ELSE [raised |-> NoErr,
          self |-> Register(self,
                            Linear(in_size, out_size.q, FALSE, seed),
                            Linear(out_size.q \div 4, out_size.q, TRUE, seed),
                            out_size)]

\* LSTM.__call__
LSTM_call(self, x) ==
    LET fail(e, s) == [raised |-> e, self |-> s, out |-> NoneT, cIn |-> NoneT,
                       lateral |-> FALSE, created |-> FALSE]
        up == Linear_call(self.upward, x)
        lat == Linear_call(self.lateral, self.h)
        sum == Add(up.y, lat.y)
        lstm_in == IF self.h # NoneT THEN sum.y ELSE up.y
        z == zeros_state(x, self.state_size)
        c0 == IF self.c = NoneT THEN z.y ELSE self.c
        res == lstm_lstm(c0, lstm_in)
    IN  IF up.raised # NoErr THEN fail(up.raised, self)
        ELSE IF self.h # NoneT /\ lat.raised # NoErr THEN fail(lat.raised, self)
        ELSE IF self.h # NoneT /\ sum.raised # NoErr THEN fail(sum.raised, self)
        ELSE IF self.c = NoneT /\ z.raised # NoErr THEN fail(z.raised, self)
        ELSE IF res.raised # NoErr
             THEN [fail(res.raised, [self EXCEPT !.c = c0])
                      EXCEPT !.cIn = c0, !.lateral = (self.h # NoneT),
                             !.created = (self.c = NoneT)]
        ELSE [raised |-> NoErr,
              self |-> [self EXCEPT !.c = res.c, !.h = res.h],
              out |-> res.h, cIn |-> c0, lateral |-> (self.h # NoneT),
              created |-> (self.c = NoneT)]

\* LSTM_Emphasis_Decoder.__init__
Decoder_init(in_size, out_size, use_attention, init_upward, init_lateral, init_attention, seed) ==
    LET self == [Blank("LSTM_Emphasis_Decoder") EXCEPT
                    !.use_attention = use_attention,
                    !.attrs = @ \cup {"use_attention"}]
        withAtt(s, att) == [s EXCEPT !.attention = att,
                                     !.attrs = @ \cup {"attention"}]
    IN
    IF Truthy(init_upward) /\ Truthy(init_lateral)
    THEN IF in_size # Cols(init_upward.W)
         THEN [raised |-> "AssertionError", self |-> self]
         ELSE IF ~NumEq(out_size, PyDiv4(Rows(init_upward.W)))
         THEN [raised |-> "AssertionError", self |-> self]
         ELSE IF Truthy(init_attention)
         THEN [raised |-> NoErr,
               self |-> Register(withAtt([self EXCEPT !.use_attention = TRUE],
                                         init_attention),
                                 init_upward, init_lateral, out_size)]
         ELSE [raised |-> NoErr,
               self |-> Register(self, init_upward, init_lateral, out_size)]
    ELSE IF ~use_attention
         THEN [raised |-> NoErr,
               self |-> Register(self,
                                 Linear(in_size, out_size.q, FALSE, seed),
                                 Linear(out_size.q \div 4, out_size.q, TRUE, seed),
                                 out_size)]
         ELSE [raised |-> NoErr,
               self |-> Register(withAtt(self, Linear(in_size, out_size.q, FALSE, seed + 1)),
                                 Linear(in_size, out_size.q, FALSE, seed),
                                 Linear(out_size.q \div 4, out_size.q, TRUE, seed),
                                 out_size)]

\* a decoder step that leaves out the attention and the lateral term
Decoder_call_no_lateral(self, x, src_hidden) ==
    LET up == Linear_call(self.upward, x)
        z == zeros_state(x, self.state_size)
        c0 == IF self.c = NoneT THEN z.y ELSE self.c
        res == lstm_lstm(c0, up.y)
    IN  IF up.raised # NoErr \/ (self.c = NoneT /\ z.raised # NoErr)
           \/ res.raised # NoErr
        THEN [raised |-> "InvalidType", self |-> self, out |-> NoneT,
              cIn |-> NoneT, lateral |-> FALSE, created |-> FALSE]
        ELSE [raised |-> NoErr,
              self |-> [self EXCEPT !.c = res.c, !.h = res.h],
              out |-> res.h, cIn |-> c0, lateral |-> (self.h # NoneT),
              created |-> (self.c = NoneT)]

\* LSTM_Emphasis_Decoder.__call__
Decoder_call(self, x, src_hidden) ==
    LET fail(e, s) == [raised |-> e, self |-> s, out |-> NoneT, cIn |-> NoneT,
                       lateral |-> FALSE, created |-> FALSE]
        up == Linear_call(self.upward, x)
        att == Linear_call(self.attention, src_hidden)
        lat == Linear_call(self.lateral, self.h)
        sum == Add(up.y, lat.y)
        lstm_in == IF self.h # NoneT THEN sum.y ELSE up.y
        z == zeros_state(x, self.state_size)
        c0 == IF self.c = NoneT THEN z.y ELSE self.c
        attention_in == IF self.use_attention THEN att.y ELSE NoneT
        withAtt == Add(lstm_in, attention_in)
        gates == IF attention_in # NoneT THEN withAtt.y ELSE lstm_in
        res == lstm_lstm(c0, gates)
        partial == [fail("x", [self EXCEPT !.c = c0])
                      EXCEPT !.cIn = c0, !.lateral = (self.h # NoneT),
                             !.created = (self.c = NoneT)]
    IN  IF up.raised # NoErr THEN fail(up.raised, self)
        ELSE IF self.use_attention /\ "attention" \notin self.attrs
             THEN fail("AttributeError", self)
        ELSE IF self.use_attention /\ att.raised # NoErr THEN fail(att.raised, self)
        ELSE IF self.h # NoneT /\ lat.raised # NoErr THEN fail(lat.raised, self)
        ELSE IF self.h # NoneT /\ sum.raised # NoErr THEN fail(sum.raised, self)
        ELSE IF self.c = NoneT /\ z.raised # NoErr THEN fail(z.raised, self)
        ELSE IF attention_in # NoneT /\ withAtt.raised # NoErr
             THEN [partial EXCEPT !.raised = withAtt.raised]
        ELSE IF res.raised # NoErr
             THEN [partial EXCEPT !.raised = res.raised]
        ELSE [raised |-> NoErr,
              self |-> [self EXCEPT !.c = res.c, !.h = res.h],
              out |-> res.h, cIn |-> c0, lateral |-> (self.h # NoneT),
              created |-> (self.c = NoneT)]

(***************************************************************************)
(* Files.  A file name is a sequence of characters; files maps the names   *)
(* that exist to their contents.                                           *)
(***************************************************************************)
SufUpward == <<".", "u", "p", "w", "a", "r", "d">>
SufLateral == <<".", "l", "a", "t", "e", "r", "a", "l">>
SufAttention == <<".", "a", "t", "t", "e", "n", "t", "i", "o", "n">>

\* open(name, 'wb') and dump
Write(fs, name, content) ==
    [n \in (DOMAIN fs) \cup {name} |-> IF n = name THEN content ELSE fs[n]]

\* os.path.exists
Exists(fs, name) == name \in DOMAIN fs

\* linear.Linear.save: one file holding the layer's parameters
Linear_save(l, fs, name) == Write(fs, name, l)

\* linear.Linear.load: the layer rebuilt from that file
Linear_load(fs, name) ==
    IF Exists(fs, name) THEN [raised |-> NoErr, link |-> fs[name]]
    ELSE [raised |-> "IOError", link |-> NoneL]

\* LSTM.save
LSTM_save(self, fs, fname) ==
    [raised |-> NoErr,
     files |-> Linear_save(self.lateral,
                           Linear_save(self.upward, fs, fname \o SufUpward),
                           fname \o SufLateral)]

\* LSTM.load
LSTM_load(fs, fname) ==
    LET upward == Linear_load(fs, fname \o SufUpward)
        lateral == Linear_load(fs, fname \o SufLateral)
        out_size == PyDiv4(Rows(upward.link.W))
        in_size == Cols(upward.link.W)
    IN  IF upward.raised # NoErr THEN [raised |-> upward.raised, self |-> NoObj]
        ELSE IF lateral.raised # NoErr THEN [raised |-> lateral.raised, self |-> NoObj]
        ELSE LSTM_init(in_size, out_size, upward.link, lateral.link, 0)

\* LSTM_Emphasis_Decoder.save
Decoder_save(self, fs, fname) ==
    LET two == Linear_save(self.lateral,
                           Linear_save(self.upward, fs, fname \o SufUpward),
                           fname \o SufLateral)
    IN  IF ~self.use_attention THEN [raised |-> NoErr, files |-> two]
        ELSE IF "attention" \notin self.attrs
             THEN [raised |-> "AttributeError", files |-> two]
        ELSE [raised |-> NoErr,
              files |-> Linear_save(self.attention, two, fname \o SufAttention)]

\* LSTM_Emphasis_Decoder.load (use_attention is left at its default, True)
Decoder_load(fs, fname) ==
    LET upward == Linear_load(fs, fname \o SufUpward)
        lateral == Linear_load(fs, fname \o SufLateral)
        attention == IF Exists(fs, fname \o SufAttention)
                     THEN Linear_load(fs, fname \o SufAttention).link
                     ELSE NoneL
        out_size == PyDiv4(Rows(upward.link.W))
        in_size == Cols(upward.link.W)
    IN  IF upward.raised # NoErr THEN [raised |-> upward.raised, self |-> NoObj]
        ELSE IF lateral.raised # NoErr THEN [raised |-> lateral.raised, self |-> NoObj]
        ELSE Decoder_init(in_size, out_size, TRUE, upward.link, lateral.link,
                          attention, 0)

(***************************************************************************)
(* The inputs the operations are driven with.                              *)
(***************************************************************************)
Builds == [trueDiv : BOOLEAN, floatShape : BOOLEAN]
InSizes == {1, 2}
OutSizes == {1}
UpWidths == {4, 5}
Bases == {<<"m">>}

XInputs == {XOf(n, w, s) : n \in BatchSizes, w \in InSizes, s \in Seeds}
SrcInputs == {XOf(n, w, 1) : n \in BatchSizes, w \in InSizes} \cup {NoneT}
UpwardLinks == {Linear(i, w, FALSE, 1) : i \in InSizes, w \in UpWidths}
LateralLinks == {Linear(o, 4 * o, TRUE, 1) : o \in OutSizes}
AttentionLinks == {Linear(i, 4 * o, FALSE, 2) : i \in InSizes, o \in OutSizes}

NoCall == [raised |-> NoErr, self |-> NoObj, out |-> NoneT, cIn |-> NoneT,
           lateral |-> FALSE, created |-> FALSE]
NoArgs == [in_size |-> 0, out_size |-> IntNum(0), use_attention |-> FALSE,
           init_upward |-> NoneL, init_lateral |-> NoneL, init_attention |-> NoneL]

\* what a call did, without the object it left
Outcome(r) == [raised |-> r.raised, out |-> r.out, cIn |-> r.cIn,
               lateral |-> r.lateral, created |-> r.created]

\* the record of the most recent operation: its name, its inputs (the batch
\* size of x, whether src_hidden was passed, the constructor's arguments, the
\* base path), what it did (call) next to what the reference LSTM did (ref),
\* and the attributes a constructor had set when it returned or raised
LastNone ==
    [op |-> "none", raised |-> NoErr, batch |-> 0, withSrc |-> FALSE,
     call |-> Outcome(NoCall), ref |-> Outcome(NoCall), refC |-> NoneT,
     refH |-> NoneT, args |-> NoArgs, partial |-> {}, base |-> <<>>,
     ret |-> "None", msg |-> <<>>]

NoSaved == [obj |-> NoObj, ok |-> FALSE, fresh |-> FALSE, writers |-> {}]

BaseFiles(b) == {b \o SufUpward, b \o SufLateral, b \o SufAttention}

StoreInit ==
    /\ build \in Builds
    /\ cell = NoObj
    /\ files = <<>>
    /\ saved = [b \in Bases |-> NoSaved]
    /\ last = LastNone
    /\ emb = <<>>
    /\ opt = <<>>

\* Without load no state_size is a float, so the treatment of float
\* dimensions plays no part in the forward calls of constructed cells.
CellInit ==
    /\ build \in {b \in Builds : ~b.floatShape}
    /\ cell = NoObj
    /\ files = <<>>
    /\ saved = [b \in Bases |-> NoSaved]
    /\ last = LastNone
    /\ emb = <<>>
    /\ opt = <<>>

\* the object a constructor call leaves the caller with
Built(r) == IF r.raised = NoErr THEN r.self ELSE NoObj

Construct(r, args) ==
    /\ cell' = Built(r)
    /\ last' = [LastNone EXCEPT !.op = "init", !.raised = r.raised,
                                !.args = args, !.partial = r.self.attrs]
    /\ UNCHANGED <<build, files, saved, emb, opt>>

\* LSTM(in_size, out_size)
NewLSTM ==
    \E i \in InSizes, o \in OutSizes, s \in Seeds :
        Construct(LSTM_init(i, IntNum(o), NoneL, NoneL, s),
                  [NoArgs EXCEPT !.in_size = i, !.out_size = IntNum(o)])

\* LSTM(in_size, out_size, init_upward=..., init_lateral=...)
NewLSTMFrom ==
    \E i \in InSizes, o \in OutSizes, u \in UpwardLinks, l \in LateralLinks :
        Construct(LSTM_init(i, IntNum(o), u, l, 0),
                  [NoArgs EXCEPT !.in_size = i, !.out_size = IntNum(o),
                                 !.init_upward = u, !.init_lateral = l])

\* LSTM_Emphasis_Decoder(in_size, out_size, use_attention)
NewDecoder ==
    \E i \in InSizes, o \in OutSizes, a \in BOOLEAN, s \in Seeds :
        Construct(Decoder_init(i, IntNum(o), a, NoneL, NoneL, NoneL, s),
                  [NoArgs EXCEPT !.in_size = i, !.out_size = IntNum(o),
                                 !.use_attention = a])

\* LSTM_Emphasis_Decoder(in_size, out_size, use_attention, init_upward=...,
\* init_lateral=..., init_attention=None or a link)
NewDecoderFrom ==
    \E i \in InSizes, o \in OutSizes, a \in BOOLEAN, u \in UpwardLinks,
       l \in LateralLinks, t \in AttentionLinks \cup {NoneL} :
        Construct(Decoder_init(i, IntNum(o), a, u, l, t, 0),
                  [NoArgs EXCEPT !.in_size = i, !.out_size = IntNum(o),
                                 !.use_attention = a, !.init_upward = u,
                                 !.init_lateral = l, !.init_attention = t])

\* layer.reset_state()
Reset ==
    /\ cell # NoObj
    /\ cell' = reset_state(cell)
    /\ last' = [LastNone EXCEPT !.op = "reset"]
    /\ UNCHANGED <<build, files, saved, emb, opt>>

\* lstm(x)
LSTMForward ==
    /\ cell.cls = "LSTM"
    /\ \E x \in XInputs :
        LET r == LSTM_call(cell, x) IN
        /\ cell' = r.self
        /\ last' = [LastNone EXCEPT !.op = "call", !.raised = r.raised,
                                    !.batch = Rows(x), !.call = Outcome(r)]
    /\ UNCHANGED <<build, files, saved, emb, opt>>

\* the plain LSTM that holds a decoder's upward and lateral links and
\* its state
AsLSTM(self) ==
    [Blank("LSTM") EXCEPT !.upward = self.upward, !.lateral = self.lateral,
                          !.state_size = self.state_size, !.c = self.c,
                          !.h = self.h,
                          !.attrs = self.attrs \ {"use_attention", "attention"}]

\* decoder(x) or decoder(x, src_hidden), next to the step lstm(x) of the
\* plain LSTM with the same links and state
DecoderForward ==
    /\ cell.cls = "LSTM_Emphasis_Decoder"
    /\ \E x \in XInputs, src \in SrcInputs :
        LET r == Decoder_call(cell, x, src)
            ref == LSTM_call(AsLSTM(cell), x)
        IN
        /\ cell' = r.self
        /\ last' = [LastNone EXCEPT !.op = "call", !.raised = r.raised,
                                    !.batch = Rows(x),
                                    !.withSrc = (src # NoneT),
                                    !.call = Outcome(r), !.ref = Outcome(ref),
                                    !.refC = ref.self.c, !.refH = ref.self.h]
    /\ UNCHANGED <<build, files, saved, emb, opt>>

SaveStep(b, r) ==
    /\ files' = r.files
    /\ saved' = [saved EXCEPT ![b] =
                    [obj |-> cell, ok |-> (r.raised = NoErr),
                     fresh |-> (BaseFiles(b) \cap DOMAIN files = {}),
                     writers |-> @.writers \cup {cell.cls}]]
    /\ last' = [LastNone EXCEPT !.op = "save", !.raised = r.raised,
                                !.base = b]
    /\ UNCHANGED <<build, cell, emb, opt>>

\* lstm.save(fname)
LSTMSave ==
    /\ cell.cls = "LSTM"
    /\ \E b \in Bases : SaveStep(b, LSTM_save(cell, files, b))

\* decoder.save(fname)
DecoderSave ==
    /\ cell.cls = "LSTM_Emphasis_Decoder"
    /\ \E b \in Bases : SaveStep(b, Decoder_save(cell, files, b))

LoadStep(b, r) ==
    /\ cell' = Built(r)
    /\ last' = [LastNone EXCEPT !.op = "load", !.raised = r.raised,
                                !.base = b, !.partial = r.self.attrs]
    /\ UNCHANGED <<build, files, saved, emb, opt>>

\* LSTM.load(fname)
LSTMLoad ==
    \E b \in Bases : LoadStep(b, LSTM_load(files, b))

\* LSTM_Emphasis_Decoder.load(fname)
DecoderLoad ==
    \E b \in Bases : LoadStep(b, Decoder_load(files, b))

CellNext ==
    \/ NewLSTM
    \/ NewLSTMFrom
    \/ NewDecoder
    \/ NewDecoderFrom
    \/ Reset
    \/ LSTMForward
    \/ DecoderForward

\* construction, forward calls and reset_state of the two LSTM cells
SpecCell == CellInit /\ [][CellNext]_vars

StoreNext ==
    \/ NewLSTM
    \/ NewLSTMFrom
    \/ NewDecoder
    \/ NewDecoderFrom
    \/ LSTMSave
    \/ DecoderSave
    \/ LSTMLoad
    \/ DecoderLoad

\* construction, save and load of the two LSTM cells
SpecStore == StoreInit /\ [][StoreNext]_vars

(***************************************************************************)
(* EmbedID                                                                 *)
(***************************************************************************)
W2VEC == <<"w", "2", "v", "e", "c">>

\* Python's `pat in s` on strings
Contains(s, pat) ==
    \E k \in 1 .. (Len(s) - Len(pat) + 1) : SubSeq(s, k, k + Len(pat) - 1) = pat

\* EmbedID.__init__: a parameter of shape (in_size, out_size), filled with
\* random values
EmbedID_init(in_size, out_size, seed) ==
    [in_size |-> in_size, out_size |-> out_size, W |-> XOf(in_size, out_size, seed)]

\* a save that ignores the pretrained-vector marker
EmbedID_save_always(self, fs, fname) ==
    [ret |-> "True", files |-> Write(fs, fname, self.W)]

\* EmbedID.save
EmbedID_save(self, fs, fname) ==
    [ret |-> "True",
     files |-> IF ~Contains(fname, W2VEC) THEN Write(fs, fname, self.W) ELSE fs]

\* EmbedID.load
EmbedID_load(fs, fname, seed) ==
    IF ~Exists(fs, fname) THEN [raised |-> "IOError", self |-> <<>>]
    ELSE LET W == fs[fname]
             out_size == Rows(W)
             in_size == Cols(W)
             model == EmbedID_init(in_size, out_size, seed)
         IN [raised |-> NoErr, self |-> [model EXCEPT !.W = W]]

EmbNames == {<<"e", "m", "b">>, <<"v", "e", "c", "2", "w">>, W2VEC,
             <<"m", "y", "_">> \o W2VEC \o <<".", "b">>}

NoBuild == [trueDiv |-> FALSE, floatShape |-> FALSE]

EmbedInit ==
    /\ build = NoBuild
    /\ cell = NoObj
    /\ files = <<>>
    /\ saved = <<>>
    /\ last = LastNone
    /\ emb = <<>>
    /\ opt = <<>>

\* EmbedID(in_size, out_size)
NewEmbedID ==
    /\ \E v \in 1 .. MaxVocab, w \in 1 .. MaxWidth, s \in Seeds :
        emb' = EmbedID_init(v, w, s)
    /\ last' = [LastNone EXCEPT !.op = "init"]
    /\ UNCHANGED <<build, cell, files, saved>>
    /\ UNCHANGED opt

\* emb.save(fname); saved remembers the layer each existing file was last
\* saved from
EmbedSave ==
    /\ emb # <<>>
    /\ \E n \in EmbNames :
        LET r == EmbedID_save(emb, files, n) IN
        /\ files' = r.files
        /\ saved' = IF Exists(r.files, n) THEN Write(saved, n, emb) ELSE saved
        /\ last' = [LastNone EXCEPT !.op = "save", !.base = n, !.ret = r.ret]
    /\ UNCHANGED <<build, cell, emb, opt>>

\* EmbedID.load(fname)
EmbedLoad ==
    /\ \E n \in EmbNames, s \in Seeds :
        LET r == EmbedID_load(files, n, s) IN
        /\ emb' = r.self
        /\ last' = [LastNone EXCEPT !.op = "load", !.base = n,
                                    !.raised = r.raised]
    /\ UNCHANGED <<build, cell, files, saved, opt>>

EmbedNext ==
    \/ NewEmbedID
    \/ EmbedSave
    \/ EmbedLoad

\* construction, save and load of EmbedID layers
SpecEmbed == EmbedInit /\ [][EmbedNext]_vars

(***************************************************************************)
(* Optimizers, as test_optimizers_by_linear_model.py drives them.          *)
(***************************************************************************)
OptimizerKinds == {"AdaDelta", "AdaGrad", "Adam", "MomentumSGD", "NesterovAG",
                   "RMSprop", "RMSpropGraves", "SGD"}

\* the classes of the objects handed to setup
LinkClasses == {"Linear", "EmbedID", "LSTM", "GRU"}
OtherClasses == {"str", "NoneType", "ndarray"}

\* isinstance(target, chainer.Link)
IsLink(target) == target \in LinkClasses

SetupMessage == <<"o", "p", "t", "i", "m", "i", "z", "a", "t", "i", "o", "n", " ",
                  "t", "a", "r", "g", "e", "t", " ", "m", "u", "s", "t", " ",
                  "b", "e", " ", "a", " ", "l", "i", "n", "k">>

\* the optimizer a create() of the test classes returns
Optimizer_create(kind) == [kind |-> kind, target |-> "None", t |-> 0]

\* a setup without the type check
Optimizer_setup_unchecked(self, target) ==
    [raised |-> NoErr, msg |-> <<>>,
     self |-> [self EXCEPT !.target = target, !.t = 0]]

\* Optimizer.setup(link)
Optimizer_setup(self, target) ==
    IF ~IsLink(target)
    THEN [raised |-> "TypeError", msg |-> SetupMessage, self |-> self]
    ELSE [raised |-> NoErr, msg |-> <<>>,
          self |-> [self EXCEPT !.target = target, !.t = 0]]

\* Optimizer.update(): one more step on the target
Optimizer_update(self) == [self EXCEPT !.t = @ + 1]

OptInit ==
    /\ build = NoBuild
    /\ cell = NoObj
    /\ files = <<>>
    /\ saved = <<>>
    /\ last = LastNone
    /\ emb = <<>>
    /\ opt = <<>>

\* optimizer = self.create()
OptCreate ==
    /\ \E k \in OptimizerKinds : opt' = Optimizer_create(k)
    /\ last' = [LastNone EXCEPT !.op = "create"]
    /\ UNCHANGED <<build, cell, files, saved, emb>>

\* optimizer.setup(target)
OptSetup ==
    /\ opt # <<>>
    /\ \E target \in LinkClasses \cup OtherClasses :
        LET r == Optimizer_setup(opt, target) IN
        /\ opt' = r.self
        /\ last' = [LastNone EXCEPT !.op = "setup", !.raised = r.raised,
                                    !.msg = r.msg, !.ret = target]
    /\ UNCHANGED <<build, cell, files, saved, emb>>

\* optimizer.update() in the training loop
OptUpdate ==
    /\ opt # <<>>
    /\ opt.target # "None"
    /\ opt.t < MaxEpoch
    /\ opt' = Optimizer_update(opt)
    /\ last' = [LastNone EXCEPT !.op = "update"]
    /\ UNCHANGED <<build, cell, files, saved, emb>>

OptNext ==
    \/ OptCreate
    \/ OptSetup
    \/ OptUpdate

\* creation, setup and update of the optimizers under test
SpecOpt == OptInit /\ [][OptNext]_vars

(***************************************************************************)
(* Properties                                                              *)
(***************************************************************************)
IsCell == cell.cls \in {"LSTM", "LSTM_Emphasis_Decoder"}
IsDecoder == cell.cls = "LSTM_Emphasis_Decoder"

\* C1: reset_state() leaves both c and h absent, and a forward call made
\* right after construction or reset_state() that reaches the LSTM step feeds
\* it a cell state created in that call, all zero, of shape (batch size of
\* the call's input, state_size), and pre-activations without a lateral
\* term; a call that does not raise does reach the LSTM step.
C1_ResetThenZeroState ==
    [][/\ (last'.op = "reset" => cell'.c = NoneT /\ cell'.h = NoneT)
       /\ (IsCell /\ last.op \in {"init", "reset"} /\ last'.op = "call")
            => /\ (last'.raised = NoErr => last'.call.cIn # NoneT)
               /\ (last'.call.cIn # NoneT
                     => /\ last'.call.created
                        /\ ~last'.call.lateral
                        /\ Rows(last'.call.cIn) = last'.batch
                        /\ \A r \in 1 .. last'.batch :
                             /\ Len(last'.call.cIn[r]) * 4 = cell.state_size.q
                             /\ \A k \in 1 .. Len(last'.call.cIn[r]) :
                                  last'.call.cIn[r][k] = 0)]_vars

\* a forward call on a decoder that created its zero cell state for a batch
\* of two and completed
C1_Witness ==
    /\ IsDecoder
    /\ last.op = "call"
    /\ last.raised = NoErr
    /\ last.call.created
    /\ last.batch = 2
    /\ cell.h # NoneT

C3_NoSourceIsLSTM ==
    (IsDecoder /\ last.op = "call" /\ cell.use_attention /\ ~last.withSrc)
        => /\ last.call = last.ref
           /\ cell.c = last.refC
           /\ cell.h = last.refH

\* the links an object holds
LinkNames(self) == self.attrs \cap {"upward", "lateral", "attention"}

\* the last save to the base was a completed save of a decoder, and only
\* decoders ever saved there
DecoderSaved(b) ==
    /\ saved[b].ok
    /\ saved[b].obj.cls = "LSTM_Emphasis_Decoder"
    /\ saved[b].writers = {"LSTM_Emphasis_Decoder"}

\* C4: a decoder loaded from a base path that held no files before the save
\* has the sub-layers and the use_attention of the saved one, raises in a
\* forward call exactly when the saved one does, and saves the same files.
C4_LoadAfterFreshSave ==
    \A b \in Bases :
        (IsDecoder /\ last.op = "load" /\ last.base = b /\ last.raised = NoErr
           /\ DecoderSaved(b) /\ saved[b].fresh)
        => /\ LinkNames(cell) = LinkNames(saved[b].obj)
           /\ cell.use_attention = saved[b].obj.use_attention
           /\ cell.use_attention = ("attention" \in cell.attrs)
           /\ \A x \in XInputs, src \in SrcInputs :
                Decoder_call(cell, x, src).raised
                   = Decoder_call(saved[b].obj, x, src).raised
           /\ Decoder_save(cell, <<>>, b) = Decoder_save(saved[b].obj, <<>>, b)

\* C5: a layer loaded from a file has the saved weight matrix and was
\* constructed with in_size = rows (vocabulary size) and out_size = columns
\* (embedding width) of that matrix.
C5_EmbedRoundTrip ==
    (last.op = "load" /\ last.raised = NoErr)
        => /\ emb.W = saved[last.base].W
           /\ emb.in_size = Rows(emb.W)
           /\ emb.out_size = Cols(emb.W)

\* C6: save returns True and leaves the layer as it was; under a name that
\* contains 'w2vec' it leaves every file as it was, under any other name the
\* named file holds the weight matrix afterwards and every other file is as
\* it was.
C6_SaveFrame ==
    [][last'.op = "save"
         => /\ last'.ret = "True"
            /\ emb' = emb
            /\ IF Contains(last'.base, W2VEC)
               THEN files' = files
               ELSE /\ DOMAIN files' = (DOMAIN files) \cup {last'.base}
                    /\ files'[last'.base] = emb.W
                    /\ \A n \in (DOMAIN files) \ {last'.base} :
                         files'[n] = files[n]]_vars

\* a save under a name containing the marker, with a file on disk
C6_Witness ==
    /\ last.op = "save"
    /\ Contains(last.base, W2VEC)
    /\ last.base # W2VEC
    /\ last.ret = "True"
    /\ files # <<>>
    /\ emb # <<>>

\* C7: construction from pre-built upward and lateral links raises an
\* AssertionError, with no link, state_size, c or h set, whenever in_size is
\* not upward's input width or upward's output width is not 4 * out_size;
\* otherwise it builds the layer from the supplied links with
\* state_size = out_size.
C7_ShapeChecks ==
    (last.op = "init" /\ Truthy(last.args.init_upward)
       /\ Truthy(last.args.init_lateral))
        => IF \/ last.args.in_size # Cols(last.args.init_upward.W)
              \/ Rows(last.args.init_upward.W) # last.args.out_size.q
           THEN /\ last.raised = "AssertionError"
                /\ cell = NoObj
                /\ last.partial \cap {"upward", "lateral", "attention",
                                      "state_size", "c", "h"} = {}
           ELSE /\ last.raised = NoErr
                /\ cell.upward = last.args.init_upward
                /\ cell.lateral = last.args.init_lateral
                /\ cell.state_size = last.args.out_size
                /\ LinkNames(cell) =
                     {"upward", "lateral"} \cup
                        (IF Truthy(last.args.init_attention)
                         THEN {"attention"} ELSE {})

\* the message test_initialize expects
ExpectedMessage ==
    <<"o", "p", "t", "i", "m", "i", "z", "a", "t", "i", "o", "n", " ",
      "t", "a", "r", "g", "e", "t", " ", "m", "u", "s", "t", " ",
      "b", "e", " ", "a", " ", "l", "i", "n", "k">>

\* C8: for each optimizer under test, setup of a Linear link succeeds and
\* makes it the target, and setup of a str raises a TypeError whose message
\* contains 'optimization target must be a link'.
C8_SetupTypeCheck ==
    (last.op = "setup" /\ opt.kind \in OptimizerKinds)
        => /\ (last.ret = "Linear"
                 => last.raised = NoErr /\ opt.target = "Linear")
           /\ (last.ret = "str"
                 => /\ last.raised = "TypeError"
                    /\ Contains(last.msg, ExpectedMessage))

\* setup('xxx') rejected on an optimizer that was never set up
C8_Witness ==
    /\ last.op = "setup"
    /\ last.ret = "str"
    /\ last.raised = "TypeError"
    /\ opt.kind = "RMSpropGraves"
    /\ opt.target = "None"

\* C9: in every reachable state of a cell, c is absent exactly when h is.
C9_StatePaired ==
    IsCell => (cell.c = NoneT <=> cell.h = NoneT)

\* C10: a decoder loaded from a base path only decoders saved to has the
\* sub-layers (with or without attention) and the link weights of the most
\* recently saved one.
C10_LoadsLatestSave ==
    \A b \in Bases :
        (IsDecoder /\ last.op = "load" /\ last.base = b /\ last.raised = NoErr
           /\ DecoderSaved(b))
        => /\ LinkNames(cell) = LinkNames(saved[b].obj)
           /\ cell.upward = saved[b].obj.upward
           /\ cell.lateral = saved[b].obj.lateral
           /\ cell.attention = saved[b].obj.attention

====
